---- MODULE Spec2Model ----
(***************************************************************************)
(* A model of the OpenRGB SDK client (src/src/client.ts): the "readable"   *)
(* handler that frames packets out of the socket's byte stream, the        *)
(* resolver queue that correlates replies with pending requests, and the   *)
(* protocol version negotiation of connect().                              *)
(*                                                                         *)
(* Bytes are integers 0..255 and buffers are sequences of bytes; a header  *)
(* is really encoded and decoded (little-endian u32 fields).               *)
(***************************************************************************)
EXTENDS Integers, Sequences, FiniteSets, TLC

VARIABLES
    settings,               \* Client.settings: [given, has, force]
    pc,                     \* where connect() stands
    transport,              \* the socket: "none", "connecting", "open", "ending",
                            \* "errored", "closed"
    isConnected,            \* Client.isConnected
    protocolVersion,        \* Client.protocolVersion (NoVersion: undefined)
    resolver,               \* Client.resolver: the pending requests, oldest first
    currentPacketLength,    \* Client.currentPacketLength
    sockbuf,                \* bytes buffered in the socket, not yet read
    wire,                   \* bytes the server has sent that have not arrived yet
    packets,                \* the packets the server sends on this connection
    sent,                   \* packets written to the socket, in order
    serverReplied,          \* the server has answered requestProtocolVersion
    nextId,                 \* number of requests registered so far
    negId,                  \* the request connect() awaits (0: none)
    outcome,                \* history: how the negotiation ended
    handed,                 \* history: buffers passed to resolve(), in order
    fulfilled,              \* history: completions fulfilled, in order
    emitted,                \* history: events emitted, by name
    crashed,                \* the readable handler threw
    discarded,              \* history: headers dropped for a bad magic
    lastCall,               \* history: how the last facade call ended
    input,                  \* codec: the value given to the function applied
    output                  \* codec: <<>>, or the one result of applying it

vars == <<settings, pc, transport, isConnected, protocolVersion, resolver,
          currentPacketLength, sockbuf, wire, packets, sent, serverReplied,
          nextId, negId, outcome, handed, fulfilled, emitted, crashed, discarded,
          lastCall, input, output>>

----------------------------------------------------------------------------
(* Program constants *)

HEADER_SIZE == 16

CLIENT_PROTOCOL_VERSION == 5

\* utils.command (src/utils.ts is not part of the sources at hand; the
\* numbers are those of the OpenRGB SDK protocol)
requestControllerCount == 0

requestControllerData == 1

requestProtocolVersion == 40

setClientNameCommand == 50

deviceListUpdated == 100

\* Buffer.from([0x4f, 0x52, 0x47, 0x42])
ORGB == <<79, 82, 71, 66>>

\* the default client name "nodejs", as bytes
ClientName == <<110, 111, 100, 101, 106, 115>>

NoVersion == -1

----------------------------------------------------------------------------
(* Bounds *)

MaxPackets == 2

MaxRequests == 2

MaxVersion == 6

----------------------------------------------------------------------------
(* Buffers *)

Min(a, b) == IF a < b THEN a ELSE b

\* bufferpack.pack("<I", [n]) / Buffer.writeUInt32LE
writeUInt32LE(n) ==
    << n % 256, (n \div 256) % 256, (n \div 65536) % 256, (n \div 16777216) % 256 >>

\* Buffer.readUInt32LE(offset), offset counted from 0. The checker's integers
\* are 32 bits wide: a value of 2^31 or more is held as that value minus
\* 2^32 (0xFFFFFFFF as -1), a one-to-one renaming of those values.
readUInt32LE(buffer, offset) ==
    buffer[offset + 1] + 256 * buffer[offset + 2]
        + 65536 * buffer[offset + 3]
        + 16777216 * (IF buffer[offset + 4] < 128 THEN buffer[offset + 4]
                      ELSE buffer[offset + 4] - 256)

\* Buffer.slice(start): the bytes from offset start on
slice(buffer, start) == SubSeq(buffer, start + 1, Len(buffer))

encodeHeader(commandId, length, deviceId) ==
    ORGB \o writeUInt32LE(deviceId) \o writeUInt32LE(commandId) \o writeUInt32LE(length)

decodeHeader(buffer) ==
    [ deviceId  |-> readUInt32LE(buffer, 4),
      commandId |-> readUInt32LE(buffer, 8),
      length    |-> readUInt32LE(buffer, 12) ]

\* header.slice(0,4).equals(Buffer.from([0x4f, 0x52, 0x47, 0x42]))
MagicOk(header) == SubSeq(header, 1, 4) = ORGB

\* socket.read(n) returns null unless n bytes are buffered ...
CanReadShort(buf, n) == IF n = HEADER_SIZE THEN Len(buf) >= n ELSE Len(buf) >= 1

CanRead(buf, n) == Len(buf) >= n

\* ... and otherwise removes and returns the first n bytes
ReadBytes(buf, n) == SubSeq(buf, 1, Min(n, Len(buf)))

AfterReadAll(buf, n) == <<>>

AfterRead(buf, n) == SubSeq(buf, Min(n, Len(buf)) + 1, Len(buf))

----------------------------------------------------------------------------
(* The correlator: resolve() *)

\* Array.findIndex over the queue: the first entry of the key, 0 when none
\* (JavaScript's -1)
findIndexLast(queue, deviceId, commandId) ==
    LET hits == { i \in 1..Len(queue) :
                    queue[i].deviceId = deviceId /\ queue[i].commandId = commandId }
    IN  IF hits = {} THEN 0 ELSE CHOOSE i \in hits : \A j \in hits : j <= i

findIndex(queue, deviceId, commandId) ==
    LET hits == { i \in 1..Len(queue) :
                    queue[i].deviceId = deviceId /\ queue[i].commandId = commandId }
    IN  IF hits = {} THEN 0 ELSE CHOOSE i \in hits : \A j \in hits : i <= j

\* Array.splice(index, 1): the queue without its index-th entry
spliceAll(queue, index) == <<>>

splice(queue, index) ==
    SubSeq(queue, 1, index - 1) \o SubSeq(queue, index + 1, Len(queue))

\* what resolve() does when no pending request has the packet's key
Unmatched(s) == s

\* s is the handler's view of the client: buf, cpl, resolver and the
\* histories; base is the number of bytes received so far
resolve(s, buffer) ==
    LET h  == decodeHeader(buffer)
        s1 == [s EXCEPT !.handed =
                  Append(@, [buffer |-> buffer, at |-> s.base - Len(s.buf)])]
    IN  IF h.commandId = deviceListUpdated
        THEN [s1 EXCEPT !.dlu = @ + 1]
        ELSE IF s1.resolver # <<>>
             THEN LET index == findIndex(s1.resolver, h.deviceId, h.commandId)
                  IN  IF index = 0
                      THEN Unmatched(s1)
                      ELSE [s1 EXCEPT
                              !.resolver = splice(@, index),
                              !.fulfilled = Append(@,
                                  [ id        |-> s1.resolver[index].id,
                                    deviceId  |-> s1.resolver[index].deviceId,
                                    commandId |-> s1.resolver[index].commandId,
                                    pkt       |-> Len(s1.handed),
                                    payload   |-> slice(buffer, 16) ])]
             ELSE s1

----------------------------------------------------------------------------
(* The framer: the socket's "readable" handler *)

RECURSIVE FramerLoop(_), AwaitPayload(_)

\* lines 111-120: the payload of the packet whose header has been read
AwaitPayload(s) ==
    IF ~CanRead(s.buf, s.cpl)
    THEN s
    ELSE LET res == ReadBytes(s.buf, s.cpl)
             s1  == [s EXCEPT !.buf = AfterRead(s.buf, s.cpl), !.cpl = 0]
         IN  IF s1.resolver = <<>>
             THEN FramerLoop(s1)
             ELSE IF s1.resolver[1].header = <<>>
                  \* Buffer.concat([undefined, res]) throws a TypeError
                  THEN [s1 EXCEPT !.crashed = TRUE]
                  ELSE FramerLoop(resolve(s1, s1.resolver[1].header \o res))

\* lines 82-109: one turn of while(true)
FramerLoop(s) ==
    IF s.cpl = 0
    THEN IF ~CanRead(s.buf, HEADER_SIZE)
         THEN s
         ELSE LET header == ReadBytes(s.buf, HEADER_SIZE)
                  s1     == [s EXCEPT !.buf = AfterRead(s.buf, HEADER_SIZE)]
              IN  IF ~MagicOk(header)
                  THEN [s1 EXCEPT !.discarded = @ + 1]
                  ELSE LET len == readUInt32LE(header, 12)
                           s2  == [s1 EXCEPT !.cpl = len]
                       IN  IF len > 0
                           THEN AwaitPayload(
                                   IF s2.resolver # <<>>
                                   THEN [s2 EXCEPT !.resolver[1].header = header]
                                   ELSE s2)
                           ELSE FramerLoop(
                                   IF s2.resolver # <<>>
                                   THEN resolve(s2, header)
                                   ELSE s2)
    ELSE AwaitPayload(s)

\* the handler run on the socket's buffer buf, base bytes having arrived
RunHandler(buf, base, cpl, queue, hand, ful, dlu, disc) ==
    FramerLoop([ buf |-> buf, base |-> base, cpl |-> cpl, resolver |-> queue,
                 handed |-> hand, fulfilled |-> ful, dlu |-> dlu,
                 discarded |-> disc, crashed |-> FALSE ])

----------------------------------------------------------------------------
(* The server's side of the wire *)

BadMagic == <<0, 0, 0, 0>>

\* the bytes of one packet: [magic, deviceId, commandId, payload]
Encode(p) ==
    p.magic \o slice(encodeHeader(p.commandId, Len(p.payload), p.deviceId), 4)
            \o p.payload

RECURSIVE Flatten(_)
Flatten(ps) == IF ps = <<>> THEN <<>> ELSE Encode(Head(ps)) \o Flatten(Tail(ps))

Stream == Flatten(packets)

\* the offset in the stream at which the i-th packet ends
EndOffset(i) == Len(Flatten(SubSeq(packets, 1, i)))

\* bytes that have arrived at the socket, and bytes the handler has read
Received == Len(Stream) - Len(wire)

Consumed == Received - Len(sockbuf)

Pkt(deviceId, commandId, payload) ==
    [magic |-> ORGB, deviceId |-> deviceId, commandId |-> commandId,
     payload |-> payload]

\* what a server may send once the connection is set up: a controller count,
\* a header-only packet for device 1, the broadcast, and a header whose magic
\* is wrong
PacketKinds ==
    { Pkt(0, requestControllerCount, <<3, 0, 0, 0>>),
      Pkt(1, requestControllerData, <<>>),
      Pkt(0, deviceListUpdated, <<>>),
      [magic |-> BadMagic, deviceId |-> 0, commandId |-> requestControllerCount,
       payload |-> <<>>] }

StreamPlans ==
    UNION { [1..n -> PacketKinds] : n \in 1..MaxPackets }

VersionReply(v) == Pkt(0, requestProtocolVersion, writeUInt32LE(v))

----------------------------------------------------------------------------
(* Settings: new Client(name, port, host, settings = {forceProtocolVersion: 0}) *)

\* given: the caller passed a settings argument; has: "forceProtocolVersion"
\* in settings; force: its value (0 when absent, where the code reads undefined)
DefaultSettings == [given |-> FALSE, has |-> TRUE, force |-> 0]

EmptySettings == [given |-> TRUE, has |-> FALSE, force |-> 0]

ForcedSettings(v) == [given |-> TRUE, has |-> TRUE, force |-> v]

AllSettings ==
    {DefaultSettings, EmptySettings} \cup { ForcedSettings(v) : v \in 0..MaxVersion }

\* ("forceProtocolVersion" in this.settings) ? ... : CLIENT_PROTOCOL_VERSION
ClientVersion(st) == IF st.has THEN st.force ELSE CLIENT_PROTOCOL_VERSION

----------------------------------------------------------------------------
(* Sending and registering: sendMessage, readMessage and the facade *)

\* sendMessage: the packet written by socket.write
sendMessage(out, commandId, buffer, deviceId) ==
    Append(out, encodeHeader(commandId, Len(buffer), deviceId) \o buffer)

\* readMessage: this.resolver.push({resolve, commandId, deviceId})
readMessage(queue, id, commandId, deviceId) ==
    Append(queue, [ id |-> id, deviceId |-> deviceId, commandId |-> commandId,
                    header |-> <<>> ])

Histories == <<handed, fulfilled, emitted, crashed, discarded>>

\* a facade call: sendMessage, then readMessage; sendMessage throws when the
\* client is not connected, and the call ends there
Request(commandId, buffer, deviceId) ==
    /\ ~crashed
    /\ IF isConnected
       THEN /\ nextId < 1 + MaxRequests
            /\ sent' = sendMessage(sent, commandId, buffer, deviceId)
            /\ resolver' = readMessage(resolver, nextId + 1, commandId, deviceId)
            /\ nextId' = nextId + 1
            /\ lastCall' = "sent"
       ELSE /\ lastCall' = "rejected"
            /\ UNCHANGED <<sent, resolver, nextId>>
    /\ UNCHANGED <<settings, pc, transport, isConnected, protocolVersion,
                   currentPacketLength, sockbuf, wire, packets, serverReplied,
                   negId, outcome, Histories, input, output>>

getControllerCount == Request(requestControllerCount, <<>>, 0)

getControllerData(deviceId) ==
    Request(requestControllerData, writeUInt32LE(protocolVersion), deviceId)

\* lines 192-197, called by the user: the reply is returned, nothing is stored
getProtocolVersion ==
    Request(requestProtocolVersion, writeUInt32LE(ClientVersion(settings)), 0)

disconnectOnlyEnds ==
    /\ pc \in {"negotiating", "done", "failed"}
    /\ ~crashed
    /\ transport' = IF transport \in {"connecting", "open"} THEN "ending"
                    ELSE transport
    /\ resolver' = <<>>
    /\ UNCHANGED <<settings, pc, isConnected, protocolVersion,
                   currentPacketLength, sockbuf, wire, packets, sent,
                   serverReplied, nextId, negId, outcome, Histories, lastCall,
                   input, output>>

\* disconnect(): socket.end(), isConnected = false, resolver = []
disconnect ==
    /\ pc \in {"negotiating", "done", "failed"}
    /\ ~crashed
    /\ transport' = IF transport \in {"connecting", "open"} THEN "ending"
                    ELSE transport
    /\ isConnected' = FALSE
    /\ resolver' = <<>>
    /\ UNCHANGED <<settings, pc, protocolVersion, currentPacketLength, sockbuf,
                   wire, packets, sent, serverReplied, nextId, negId, outcome,
                   Histories, lastCall, input, output>>

----------------------------------------------------------------------------
(* connect(): what follows the negotiation (lines 131-139) *)

EffectiveVersionMin(st, serverProtocolVersion) ==
    IF serverProtocolVersion < (IF st.has THEN st.force ELSE CLIENT_PROTOCOL_VERSION)
    THEN serverProtocolVersion
    ELSE (IF st.has THEN st.force ELSE CLIENT_PROTOCOL_VERSION)

EffectiveVersion(st, serverProtocolVersion) ==
    IF st.force # 0 /\ serverProtocolVersion = 0
    THEN st.force
    ELSE LET clientVersion == ClientVersion(st)
         IN  IF serverProtocolVersion < clientVersion
             THEN serverProtocolVersion
             ELSE clientVersion

\* the promise of lines 126-129 settles once: a second settlement is ignored
AwaitingVersionAgain == pc \in {"negotiating", "done"}

AwaitingVersion == pc = "negotiating"

\* the rest of connect() once serverProtocolVersion is known; setClientName
\* throws when the client is no longer connected
FinishConnect(serverProtocolVersion, netEmitted, how) ==
    /\ protocolVersion' = EffectiveVersion(settings, serverProtocolVersion)
    /\ negId' = 0
    /\ outcome' = how
    /\ IF isConnected
       THEN /\ sent' = sendMessage(sent, setClientNameCommand,
                                   ClientName \o <<0>>, 0)
            /\ emitted' = [netEmitted EXCEPT !.connect = @ + 1]
            /\ pc' = "done"
       ELSE /\ sent' = sent
            /\ emitted' = netEmitted
            /\ pc' = "failed"

----------------------------------------------------------------------------
(* The socket's events *)

\* "readable": k more bytes have arrived; the handler runs to its return
Readable(k) ==
    /\ transport \in {"open", "ending"}
    /\ ~crashed
    /\ k \in 1..Len(wire)
    /\ \E s \in {RunHandler(sockbuf \o SubSeq(wire, 1, k), Received + k,
                           currentPacketLength, resolver, handed, fulfilled,
                           emitted.deviceListUpdated, discarded)} :
       LET net == [emitted EXCEPT !.deviceListUpdated = s.dlu]
           answers == { i \in Len(fulfilled) + 1 .. Len(s.fulfilled) :
                          s.fulfilled[i].id = negId }
       IN  /\ wire' = SubSeq(wire, k + 1, Len(wire))
           /\ sockbuf' = s.buf
           /\ currentPacketLength' = s.cpl
           /\ resolver' = s.resolver
           /\ handed' = s.handed
           /\ fulfilled' = s.fulfilled
           /\ crashed' = s.crashed
           /\ discarded' = s.discarded
           /\ IF AwaitingVersion /\ answers # {}
              THEN FinishConnect(
                      readUInt32LE(s.fulfilled[CHOOSE i \in answers : TRUE].payload, 0),
                      net, "reply")
              ELSE /\ emitted' = net
                   /\ UNCHANGED <<pc, protocolVersion, sent, negId, outcome>>
    /\ UNCHANGED <<settings, transport, isConnected, packets, serverReplied,
                   nextId, lastCall, input, output>>

\* "error": this.emit("error", err); this.isConnected = false
SocketError ==
    /\ transport \in {"connecting", "open", "ending"}
    /\ pc \in {"negotiating", "done", "failed"}
    /\ transport' = "errored"
    /\ isConnected' = FALSE
    /\ emitted' = [emitted EXCEPT !.error = @ + 1]
    /\ UNCHANGED <<settings, pc, protocolVersion, resolver, currentPacketLength,
                   sockbuf, wire, packets, sent, serverReplied, nextId, negId,
                   outcome, handed, fulfilled, crashed, discarded, lastCall,
                   input, output>>

\* "close": this.emit("disconnect"); this.isConnected = false
SocketClose ==
    /\ transport \in {"open", "ending", "errored"}
    /\ pc \in {"negotiating", "done", "failed"}
    /\ transport' = "closed"
    /\ isConnected' = FALSE
    /\ emitted' = [emitted EXCEPT !.disconnect = @ + 1]
    /\ UNCHANGED <<settings, pc, protocolVersion, resolver, currentPacketLength,
                   sockbuf, wire, packets, sent, serverReplied, nextId, negId,
                   outcome, handed, fulfilled, crashed, discarded, lastCall,
                   input, output>>

----------------------------------------------------------------------------
(* The framer and the correlator on an established connection *)

NoEvents == [deviceListUpdated |-> 0, connect |-> 0, disconnect |-> 0, error |-> 0]

\* connect() has completed against a version 5 server; the server's further
\* packets are in flight. The histories start here.
InitFramer ==
    /\ settings = EmptySettings
    /\ pc = "done"
    /\ transport = "open"
    /\ isConnected = TRUE
    /\ protocolVersion = CLIENT_PROTOCOL_VERSION
    /\ resolver = <<>>
    /\ currentPacketLength = 0
    /\ sockbuf = <<>>
    /\ packets \in StreamPlans
    /\ wire = Flatten(packets)
    /\ sent = sendMessage(
                sendMessage(<<>>, requestProtocolVersion,
                            writeUInt32LE(CLIENT_PROTOCOL_VERSION), 0),
                setClientNameCommand, ClientName \o <<0>>, 0)
    /\ serverReplied = TRUE
    /\ nextId = 1
    /\ negId = 0
    /\ outcome = "reply"
    /\ handed = <<>>
    /\ fulfilled = <<>>
    /\ emitted = [NoEvents EXCEPT !.connect = 1]
    /\ crashed = FALSE
    /\ discarded = 0
    /\ lastCall = "none"
    /\ input = <<>>
    /\ output = <<>>

NextFramer ==
    \/ \E k \in 1..Len(wire) : Readable(k)
    \/ getControllerCount
    \/ getControllerData(1)

SpecFramer == InitFramer /\ [][NextFramer]_vars

\* The same with every request registered before the first byte arrives
NextStream ==
    \/ \E k \in 1..Len(wire) : Readable(k)
    \/ Received = 0 /\ getControllerCount
    \/ Received = 0 /\ getControllerData(1)

SpecStream == InitFramer /\ [][NextStream]_vars

----------------------------------------------------------------------------
(* connect(): the race for the connection and the negotiation *)

NetUnchanged ==
    UNCHANGED <<resolver, currentPacketLength, sockbuf, wire, packets,
                serverReplied, handed, fulfilled, crashed, discarded, lastCall,
                input, output>>

\* lines 47-59: the socket is created and asked to connect
connect ==
    /\ pc = "idle"
    /\ pc' = "racing"
    /\ transport' = "connecting"
    /\ UNCHANGED <<settings, isConnected, protocolVersion, sent, nextId, negId,
                   outcome, emitted>>
    /\ NetUnchanged

\* lines 64-128, run when the race does not end with an Error object: the
\* handlers are installed, isConnected is set, and getProtocolVersion sends
\* its request and registers for the reply
StartNegotiation ==
    /\ isConnected' = TRUE
    /\ sent' = sendMessage(sent, requestProtocolVersion,
                           writeUInt32LE(ClientVersion(settings)), 0)
    /\ resolver' = readMessage(resolver, nextId + 1, requestProtocolVersion, 0)
    /\ nextId' = nextId + 1
    /\ negId' = nextId + 1
    /\ pc' = "negotiating"
    /\ UNCHANGED <<settings, protocolVersion, outcome, emitted,
                   currentPacketLength, sockbuf, wire, packets, serverReplied,
                   handed, fulfilled, crashed, discarded, lastCall,
                   input, output>>

\* the race is won by the socket's "connect"
ConnectSucceeds ==
    /\ pc = "racing"
    /\ transport' = "open"
    /\ StartNegotiation

\* the race is won by the timer: res is the string "timeout", not an object
ConnectTimesOut ==
    /\ pc = "racing"
    /\ transport' = "connecting"
    /\ StartNegotiation

\* the race is won by the socket's "error": typeof res == "object", thrown
ConnectFails ==
    /\ pc = "racing"
    /\ pc' = "failed"
    /\ transport' = "closed"
    /\ UNCHANGED <<settings, isConnected, protocolVersion, sent, nextId, negId,
                   outcome, emitted>>
    /\ NetUnchanged

\* the socket connects after connect() stopped waiting for it
LateConnect ==
    /\ pc # "racing"
    /\ transport = "connecting"
    /\ transport' = "open"
    /\ UNCHANGED <<settings, pc, isConnected, protocolVersion, sent, nextId,
                   negId, outcome, emitted>>
    /\ NetUnchanged

\* the requestProtocolVersion packets written, and the replies to them
VersionRequests ==
    Cardinality({ i \in 1..Len(sent) :
                    decodeHeader(sent[i]).commandId = requestProtocolVersion })

VersionReplies ==
    Cardinality({ i \in 1..Len(packets) :
                    packets[i].commandId = requestProtocolVersion })

\* the server answers a requestProtocolVersion it has received
ServerReply(v) ==
    /\ transport = "open"
    /\ VersionReplies < VersionRequests
    /\ serverReplied' = TRUE
    /\ packets' = Append(packets, VersionReply(v))
    /\ wire' = wire \o Encode(VersionReply(v))
    /\ UNCHANGED <<settings, pc, transport, isConnected, protocolVersion,
                   resolver, currentPacketLength, sockbuf, sent, nextId, negId,
                   outcome, handed, fulfilled, emitted, crashed, discarded,
                   lastCall, input, output>>

\* line 127: setTimeout(() => reject(0), timeout), and .catch(_ => _)
NegotiationTimeout ==
    /\ AwaitingVersion
    /\ FinishConnect(0, emitted, "timeout")
    /\ UNCHANGED <<settings, transport, isConnected, nextId>>
    /\ NetUnchanged

InitNeg ==
    /\ settings \in AllSettings
    /\ pc = "idle"
    /\ transport = "none"
    /\ isConnected = FALSE
    /\ protocolVersion = NoVersion
    /\ resolver = <<>>
    /\ currentPacketLength = 0
    /\ sockbuf = <<>>
    /\ packets = <<>>
    /\ wire = <<>>
    /\ sent = <<>>
    /\ serverReplied = FALSE
    /\ nextId = 0
    /\ negId = 0
    /\ outcome = "none"
    /\ handed = <<>>
    /\ fulfilled = <<>>
    /\ emitted = NoEvents
    /\ crashed = FALSE
    /\ discarded = 0
    /\ lastCall = "none"
    /\ input = <<>>
    /\ output = <<>>

NextNeg ==
    \/ connect
    \/ ConnectSucceeds
    \/ ConnectTimesOut
    \/ ConnectFails
    \/ LateConnect
    \/ \E v \in 0..MaxVersion : ServerReply(v)
    \/ \E k \in 1..Len(wire) : Readable(k)
    \/ NegotiationTimeout
    \/ SocketError
    \/ SocketClose

SpecNeg == InitNeg /\ [][NextNeg]_vars

----------------------------------------------------------------------------
(* The life of a client: connect(), requests at any moment, disconnect() *)

\* the server sends a packet of its own, or the answer to a request
ServerSends(p) ==
    /\ transport = "open"
    /\ pc = "done"
    /\ Len(packets) < MaxPackets
    /\ packets' = Append(packets, p)
    /\ wire' = wire \o Encode(p)
    /\ UNCHANGED <<settings, pc, transport, isConnected, protocolVersion,
                   resolver, currentPacketLength, sockbuf, sent, serverReplied,
                   nextId, negId, outcome, handed, fulfilled, emitted, crashed,
                   discarded, lastCall, input, output>>

\* the settings, the server versions, the server's packets and the chunks of
\* this specification: no override configured; a version 0 server
\* or a newer one; a controller count reply or a broadcast; all that is in
\* flight arrives in one chunk
LifeSettings == {EmptySettings}

LifeVersions == {0, MaxVersion}

LifePackets == { Pkt(0, requestControllerCount, <<3, 0, 0, 0>>),
                 Pkt(0, deviceListUpdated, <<>>) }

LifeChunks == { k \in 1..Len(wire) : k = Len(wire) }

InitLife == InitNeg /\ settings \in LifeSettings

NextLife ==
    \/ connect
    \/ ConnectSucceeds
    \/ ConnectTimesOut
    \/ ConnectFails
    \/ LateConnect
    \/ \E v \in LifeVersions : ServerReply(v)
    \/ \E k \in LifeChunks : Readable(k)
    \/ NegotiationTimeout
    \/ SocketError
    \/ SocketClose
    \/ (isConnected => nextId < MaxRequests) /\ getControllerCount
    \/ (isConnected => nextId < MaxRequests) /\ getProtocolVersion
    \/ disconnect
    \/ \E p \in LifePackets : ServerSends(p)

SpecLife == InitLife /\ [][NextLife]_vars

----------------------------------------------------------------------------
(* Claims about the framer and the correlator *)

\* every header of the stream starts with the magic
ValidPlan == \A i \in 1..Len(packets) : packets[i].magic = ORGB

\* the (deviceId, commandId, payload) of the buffers passed to resolve()
Triples(hs) ==
    [ i \in 1..Len(hs) |->
        [ deviceId  |-> decodeHeader(hs[i].buffer).deviceId,
          commandId |-> decodeHeader(hs[i].buffer).commandId,
          payload   |-> slice(hs[i].buffer, 16) ] ]

\* the requests the facade has registered, read back from what it sent
\* after the handshake's two packets: in SpecStream, the queue as it stands
\* when the first byte arrives
RegisteredQueue ==
    [ i \in 1..(Len(sent) - 2) |->
        [ id        |-> i + 1,
          deviceId  |-> decodeHeader(sent[i + 2]).deviceId,
          commandId |-> decodeHeader(sent[i + 2]).commandId,
          header    |-> <<>> ] ]

\* the handler run once on everything received so far
WholeDelivery ==
    RunHandler(SubSeq(Stream, 1, Received), Received, 0, RegisteredQueue,
               <<>>, <<>>, 0, 0)

\* C1: for a valid stream and a queue registered beforehand, the packets
\* handed to the correlator after any chunked delivery of a prefix of the
\* stream are, in order, those handed when that prefix arrives in a single
\* notification; at the end of the stream the prefix is the whole stream.
C1_ChunkingIsInvisible ==
    (ValidPlan /\ Received > 0) => Triples(handed) = Triples(WholeDelivery.handed)

\* a packet has been handed, and the next one is cut inside its payload,
\* with a request pending and more of the stream to come
C1_Witness ==
    /\ ValidPlan
    /\ Len(handed) >= 1
    /\ resolver # <<>>
    /\ currentPacketLength > 0
    /\ sockbuf # <<>>
    /\ wire # <<>>

\* C2 (what is handed): every buffer handed to the correlator is the last
\* 16 + length bytes the framer has read from the stream, length being the
\* header's own field, with a valid magic.
C2_HandedWhole ==
    \A i \in 1..Len(handed) :
        LET h == handed[i]
        IN  /\ Len(h.buffer) = HEADER_SIZE + decodeHeader(h.buffer).length
            /\ MagicOk(h.buffer)
            /\ Len(h.buffer) <= h.at
            /\ h.at <= Consumed
            /\ h.buffer = SubSeq(Stream, h.at - Len(h.buffer) + 1, h.at)

\* C2 (suspension): a notification that leaves fewer bytes buffered than the
\* framer's state needs (16 in AwaitingHeader, the remembered length in
\* AwaitingPayload) consumes none of them, keeps the state and hands nothing.
C2_Suspends ==
    LET arrived  == SubSeq(wire, 1, Len(wire) - Len(wire'))
        buffered == sockbuf \o arrived
        needed   == IF currentPacketLength = 0 THEN HEADER_SIZE
                    ELSE currentPacketLength
    IN  (wire' # wire /\ Len(buffered) < needed)
            => /\ sockbuf' = buffered
               /\ currentPacketLength' = currentPacketLength
               /\ handed' = handed

\* C2: no packet is handed before all its bytes have been read, and a short
\* buffer is left alone.
C2_CompletePackets == []C2_HandedWhole /\ [][C2_Suspends]_vars

\* a packet with a payload has been handed and the next header is cut
C2_Witness ==
    /\ \E i \in 1..Len(handed) : Len(handed[i].buffer) > HEADER_SIZE
    /\ currentPacketLength = 0
    /\ sockbuf # <<>>
    /\ Len(sockbuf) < HEADER_SIZE

\* the broadcast packets that have arrived completely
BroadcastsArrived ==
    { i \in 1..Len(packets) :
        /\ packets[i].commandId = deviceListUpdated
        /\ EndOffset(i) <= Received }

\* C3 as claimed: on a valid stream every deviceListUpdated packet that
\* has arrived completely has been announced, whatever the queue holds.
C3_EveryBroadcastAnnounced ==
    (ValidPlan /\ ~crashed) =>
        emitted.deviceListUpdated = Cardinality(BroadcastsArrived)

SameKey(a, b) == a.deviceId = b.deviceId /\ a.commandId = b.commandId

\* C4: requests of one key are fulfilled oldest first, by the packets of
\* that key in their order of arrival: among the fulfilled of a key, both
\* the registration numbers and the packets go up, each by a packet of its
\* own key, and no older request of the key is still pending.
C4_FifoPerKey ==
    /\ \A i, j \in 1..Len(fulfilled) :
          (i < j /\ SameKey(fulfilled[i], fulfilled[j]))
              => /\ fulfilled[i].id < fulfilled[j].id
                 /\ fulfilled[i].pkt < fulfilled[j].pkt
    /\ \A i \in 1..Len(fulfilled) :
          /\ SameKey(decodeHeader(handed[fulfilled[i].pkt].buffer), fulfilled[i])
          /\ fulfilled[i].payload = slice(handed[fulfilled[i].pkt].buffer, 16)
          /\ \A q \in 1..Len(resolver) :
                SameKey(resolver[q], fulfilled[i]) => resolver[q].id > fulfilled[i].id

\* two requests of one key have been fulfilled
C4_Witness ==
    \E i, j \in 1..Len(fulfilled) :
        i < j /\ SameKey(fulfilled[i], fulfilled[j])

\* the buffer starts with a complete well-formed packet
PacketBuffered ==
    /\ currentPacketLength = 0
    /\ Len(sockbuf) >= HEADER_SIZE
    /\ MagicOk(sockbuf)
    /\ Len(sockbuf) >= HEADER_SIZE + decodeHeader(sockbuf).length

\* C8 as claimed: once a header has been dropped for its magic, the client
\* is not left connected, with no error surfaced, while a complete packet
\* sits unprocessed in the buffer.
C8_NoSilentStall ==
    ~ ( /\ discarded > 0
        /\ isConnected
        /\ emitted.error = 0
        /\ PacketBuffered )

\* C9 as claimed: when the handler has returned, no complete packet is left
\* in the buffer, neither a whole one in AwaitingHeader nor the awaited
\* payload in AwaitingPayload.
C9_Drained ==
    /\ ~PacketBuffered
    /\ currentPacketLength > 0 => Len(sockbuf) < currentPacketLength

\* the i-th packet is a well-formed non-broadcast packet of a key no pending
\* request has, and this step's handler reads it to its end
UnmatchedRead(i) ==
    /\ packets[i].magic = ORGB
    /\ packets[i].commandId # deviceListUpdated
    /\ \A q \in 1..Len(resolver) : ~SameKey(resolver[q], packets[i])
    /\ Consumed < EndOffset(i)
    /\ EndOffset(i) <= Consumed'

Ids(queue) == [ q \in 1..Len(queue) |-> queue[q].id ]

\* C10 as claimed: a step in which the handler reads an unmatched packet
\* fulfils nothing with it and leaves the queue as it was, unless a later
\* packet of the same notification is matched; nothing is kept for later;
\* and the framer goes on to the next packet when that one has arrived too.
C10_UnmatchedStep ==
    \A i \in 1..Len(packets) :
        UnmatchedRead(i) =>
            /\ \A f \in Len(fulfilled) + 1 .. Len(fulfilled') :
                  /\ fulfilled'[f].pkt > Len(handed)
                  /\ handed'[fulfilled'[f].pkt].at # EndOffset(i)
            /\ (Len(fulfilled') = Len(fulfilled) => Ids(resolver') = Ids(resolver))
            /\ (i < Len(packets) /\ EndOffset(i + 1) <= Received')
                  => Consumed' >= EndOffset(i + 1)

\* C10: every step of the client drops the unmatched packets it reads, as
\* C10_UnmatchedStep says.
C10_UnmatchedDropped == [][C10_UnmatchedStep]_vars

----------------------------------------------------------------------------
(* Claims about the negotiation *)

\* the preferred version as the claims define it: the override the caller
\* configured, the built-in maximum when the caller configured none
PreferredVersion(st) ==
    IF st.given /\ st.has THEN st.force ELSE CLIENT_PROTOCOL_VERSION

\* the version in the server's reply
ServerVersion == readUInt32LE(packets[1].payload, 0)

\* C5 as claimed: when the reply ends the negotiation, the effective version
\* is the smaller of the server's and the preferred version.
C5_MinOnReply ==
    outcome = "reply" =>
        protocolVersion = Min(ServerVersion, PreferredVersion(settings))

\* C6 as claimed: the first packet connect() writes is requestProtocolVersion
\* carrying the preferred version: the override, or 5 when none was given.
C6_PreferredCarried ==
    sent # <<>> =>
        /\ decodeHeader(sent[1]).commandId = requestProtocolVersion
        /\ readUInt32LE(sent[1], HEADER_SIZE) = PreferredVersion(settings)

TimeoutVersion(st) == IF st.force # 0 THEN st.force ELSE 0

\* the step in which the negotiation times out
C7_TimeoutStep ==
    (outcome = "none" /\ outcome' = "timeout") =>
        /\ protocolVersion' = TimeoutVersion(settings)
        /\ IF isConnected
           THEN /\ pc' = "done"
                /\ emitted'.connect = emitted.connect + 1
                /\ Len(sent') = Len(sent) + 1
                /\ decodeHeader(sent'[Len(sent')]).commandId = setClientNameCommand
           ELSE /\ pc' = "failed"
                /\ sent' = sent
                /\ emitted' = emitted

----------------------------------------------------------------------------
(* Claims about fulfilment *)

\* the packets a step's handler reads to their end: first and last index
FirstRead == Cardinality({ i \in 1..Len(packets) : EndOffset(i) <= Consumed }) + 1

LastRead == Cardinality({ i \in 1..Len(packets) : EndOffset(i) <= Consumed' })

\* what the correlator is to do with packets i..hi on the given queue: each
\* well-formed non-broadcast packet fulfils the oldest pending request of its
\* key with its payload, and that request leaves the queue
RECURSIVE Correlate(_, _, _, _)
Correlate(queue, ful, i, hi) ==
    IF i > hi
    THEN [queue |-> queue, ful |-> ful]
    ELSE LET p     == packets[i]
             index == findIndex(queue, p.deviceId, p.commandId)
         IN  IF p.magic = ORGB /\ p.commandId # deviceListUpdated /\ index > 0
             THEN Correlate(splice(queue, index),
                            Append(ful, [id |-> queue[index].id,
                                         payload |-> p.payload]),
                            i + 1, hi)
             ELSE Correlate(queue, ful, i + 1, hi)

\* the completions of a step: request and payload received
NewlyFulfilled ==
    [ f \in 1..(Len(fulfilled') - Len(fulfilled)) |->
        [ id      |-> fulfilled'[Len(fulfilled) + f].id,
          payload |-> fulfilled'[Len(fulfilled) + f].payload ] ]

C11_MatchStep ==
    wire' # wire =>
        LET due == Correlate(resolver, <<>>, FirstRead, LastRead)
        IN  /\ NewlyFulfilled = due.ful
            /\ Ids(resolver') = Ids(due.queue)

\* C11 as claimed: whenever the handler reads to its end a packet that
\* matches a pending request, the oldest request of that key leaves the
\* queue and its completion gets the packet's payload, header stripped
\* (empty for a length-0 packet); the payload 03 00 00 00 of a controller
\* count reply reads as 3.
C11_MatchedFulfilled ==
    /\ [][C11_MatchStep]_vars
    /\ [](\A f \in 1..Len(fulfilled) :
            fulfilled[f].payload = <<3, 0, 0, 0>>
                => readUInt32LE(fulfilled[f].payload, 0) = 3)

----------------------------------------------------------------------------
(* Claims about the life of a client *)

C12_Step ==
    /\ protocolVersion' # protocolVersion => (outcome = "none" /\ outcome' # "none")
    /\ outcome # "none" => outcome' = outcome

\* C12: the negotiation ends once, the effective version is set in that one
\* step and never changes afterwards, whatever requests, packets, late
\* version replies and getProtocolVersion calls follow.
C12_VersionFixed ==
    /\ [][C12_Step]_vars
    /\ [](outcome = "none" => protocolVersion = NoVersion)

\* version replies the client has received: the one the negotiation asked for
\* and one asked for by a getProtocolVersion call
VersionsReceived(f) ==
    /\ fulfilled[f].commandId = requestProtocolVersion
    /\ readUInt32LE(fulfilled[f].payload, 0) # protocolVersion

\* the negotiation timed out, its reply came late, a getProtocolVersion call
\* got another reply, both with a version other than the effective one
C12_Witness ==
    /\ outcome = "timeout"
    /\ protocolVersion = 0
    /\ \E f, g \in 1..Len(fulfilled) :
          /\ fulfilled[f].id = 1
          /\ fulfilled[g].id > 1
          /\ VersionsReceived(f)
          /\ VersionsReceived(g)

\* the client is not connected: connect() has not been called, disconnect()
\* has ended the socket, or the socket has reported an error or its close
NotConnected == transport \in {"none", "ending", "errored", "closed"}

C13_Step ==
    NotConnected =>
        /\ sent' = sent
        /\ Len(resolver') <= Len(resolver)
        /\ nextId' = nextId
        /\ lastCall' # lastCall => lastCall' = "rejected"

\* C13: while the client is not connected its isConnected flag is false, so
\* every facade call ends with the error sendMessage throws: nothing is
\* written to the socket and no request joins the queue.
C13_RejectedWhileDisconnected ==
    /\ [](NotConnected => ~isConnected)
    /\ [][C13_Step]_vars

\* a call was rejected after disconnect() ended a connection on which a
\* request had been sent
C13_Witness ==
    /\ transport = "ending"
    /\ lastCall = "rejected"
    /\ nextId >= 2
    /\ pc = "done"

\* the pending request with this id is fulfilled in this step
FulfilledNow(id) ==
    \E f \in Len(fulfilled) + 1 .. Len(fulfilled') : fulfilled'[f].id = id

\* the pending request with this id is still pending after this step
StillPending(id) == \E q \in 1..Len(resolver') : resolver'[q].id = id

\* the pending requests that stay keep their order
OrderKept ==
    \A q, r \in 1..Len(resolver') :
        q < r => resolver'[q].id < resolver'[r].id

\* C14 as claimed: a pending request leaves the queue only when a matching
\* packet fulfils it; close, error, disconnect(), the negotiation timeout and
\* other packets leave it in the queue.
C14_Step ==
    \A q \in 1..Len(resolver) :
        StillPending(resolver[q].id) \/ FulfilledNow(resolver[q].id)

C14_OnlyFulfilmentRemoves == [][C14_Step]_vars

\* a step of disconnect(): the queue is emptied and the client marked not
\* connected; nothing is read, emitted or fulfilled
DisconnectStep ==
    /\ resolver' = <<>>
    /\ isConnected' = FALSE
    /\ wire' = wire
    /\ emitted' = emitted
    /\ fulfilled' = fulfilled
    /\ sent' = sent

C14_AmendedStep ==
    /\ \A q \in 1..Len(resolver) :
          \/ StillPending(resolver[q].id)
          \/ FulfilledNow(resolver[q].id)
          \/ DisconnectStep
    /\ \A f \in Len(fulfilled) + 1 .. Len(fulfilled') :
          \E q \in 1..Len(resolver) :
              resolver[q].id = fulfilled'[f].id /\ SameKey(resolver[q], fulfilled'[f])
    /\ OrderKept

\* C14, amended: a pending request leaves the queue only when a packet of
\* its key fulfils it or when disconnect() empties the queue; disconnect()
\* drops the pending requests without fulfilling or rejecting them, and only
\* requests that are in the queue are ever fulfilled. Close, error, the
\* negotiation timeout, unmatched packets and broadcasts leave the queue as
\* it is.
C14_LeavesByFulfilmentOrDisconnect == [][C14_AmendedStep]_vars

\* a request was sent, disconnect() dropped it, and it was never fulfilled
C14_Witness ==
    /\ transport = "ending"
    /\ resolver = <<>>
    /\ \E id \in 2..nextId :
          \A f \in 1..Len(fulfilled) : fulfilled[f].id # id

----------------------------------------------------------------------------
(* The codec (src/src/device.ts): pure functions, each applied once to an  *)
(* input drawn from a bounded set, on a client that is merely constructed  *)

IdleClient ==
    /\ settings = EmptySettings
    /\ pc = "idle"
    /\ transport = "none"
    /\ isConnected = FALSE
    /\ protocolVersion = NoVersion
    /\ resolver = <<>>
    /\ currentPacketLength = 0
    /\ sockbuf = <<>>
    /\ packets = <<>>
    /\ wire = <<>>
    /\ sent = <<>>
    /\ serverReplied = FALSE
    /\ nextId = 0
    /\ negId = 0
    /\ outcome = "none"
    /\ handed = <<>>
    /\ fulfilled = <<>>
    /\ emitted = NoEvents
    /\ crashed = FALSE
    /\ discarded = 0
    /\ lastCall = "none"

ClientUnchanged ==
    UNCHANGED <<settings, pc, transport, isConnected, protocolVersion, resolver,
                currentPacketLength, sockbuf, wire, packets, sent,
                serverReplied, nextId, negId, outcome, handed, fulfilled,
                emitted, crashed, discarded, lastCall>>

\* the function has not been applied yet / has been applied
Pending == output = <<>>

Applied == output # <<>>

Result == output[1]

----------------------------------------------------------------------------
(* readModes: the flag lookup (lines 167-181) *)

\* const flags = [...]
flags ==
    << "speed", "directionLR", "directionUD", "directionHV", "brightness",
       "perLedColor", "modeSpecificColor", "randomColor", "manualSave",
       "automaticSave" >>

\* Number.prototype.toString(2): the binary digits, most significant first
RECURSIVE toString2(_)
toString2(n) ==
    IF n < 2 THEN <<n>> ELSE Append(toString2(n \div 2), n % 2)

reverse(s) == [ i \in 1..Len(s) |-> s[Len(s) + 1 - i] ]

\* an empty slot of Array(n): reads as undefined, skipped by forEach
Empty == -1

\* Array(flags.length - flagcheck_str.length).concat(...).reverse(); Array(n)
\* throws a RangeError when n is negative
ArrayThrows(modeFlags) == Len(flags) - Len(toString2(modeFlags)) < 0

flagcheck(modeFlags) ==
    LET flagcheck_str == toString2(modeFlags)
    IN  reverse([ i \in 1..(Len(flags) - Len(flagcheck_str)) |-> Empty ]
                  \o flagcheck_str)

AlwaysTruthy(check, i) == TRUE

\* Number(flagcheck[i]) as a condition: "1" is true; "0", an empty slot and
\* an index past the end are false
Truthy(check, i) == i + 1 <= Len(check) /\ check[i + 1] = 1

\* flagcheck.forEach((el, i) => { if (el == "1") flagList.push(flags[i]) })
RECURSIVE pushFlags(_, _)
pushFlags(check, i) ==
    IF i = 0 THEN <<>>
    ELSE pushFlags(check, i - 1)
            \o (IF check[i] = 1 THEN <<flags[i]>> ELSE <<>>)

\* lines 167-181: the flagList of a mode, or the RangeError
readFlags(modeFlags) ==
    IF ArrayThrows(modeFlags)
    THEN [threw |-> TRUE, check |-> <<>>, flagList |-> <<>>]
    ELSE LET check == flagcheck(modeFlags)
             tags  == pushFlags(check, Len(check))
         IN  [ threw    |-> FALSE,
               check    |-> check,
               flagList |-> IF Truthy(check, 1) \/ Truthy(check, 2)
                               \/ Truthy(check, 3)
                            THEN Append(tags, "direction")
                            ELSE tags ]

\* the flags values tried: every value below 2^MaxFlagBits
MaxFlagBits == 11

InitFlags ==
    /\ IdleClient
    /\ input \in [ modeFlags : 0..(2^MaxFlagBits - 1) ]
    /\ output = <<>>

DecodeFlags ==
    /\ Pending
    /\ output' = <<readFlags(input.modeFlags)>>
    /\ UNCHANGED input
    /\ ClientUnchanged

SpecFlags == InitFlags /\ [][DecodeFlags]_vars

\* bit i of a value
Bit(n, i) == (n \div 2^i) % 2

\* the tags of the bits 0..9 that are set, in bit order
RECURSIVE TagsUpTo(_, _)
TagsUpTo(n, i) ==
    IF i = 0 THEN <<>>
    ELSE TagsUpTo(n, i - 1) \o (IF Bit(n, i - 1) = 1 THEN <<flags[i]>> ELSE <<>>)

ExpectedFlagList(n) ==
    IF Bit(n, 1) = 1 \/ Bit(n, 2) = 1 \/ Bit(n, 3) = 1
    THEN Append(TagsUpTo(n, Len(flags)), "direction")
    ELSE TagsUpTo(n, Len(flags))

\* C15 as claimed: for every flags value the decode completes and the
\* flagList holds, in bit order, the tags of the set bits 0..9, then
\* "direction" exactly when one of bits 1..3 is set; higher bits add nothing.
C15_FlagListFromBits ==
    Applied =>
        /\ ~Result.threw
        /\ Result.flagList = ExpectedFlagList(input.modeFlags)

----------------------------------------------------------------------------
(* readModes: one mode record (lines 118-238) *)

readUInt8(buffer, offset) == buffer[offset + 1]

readUInt16LE(buffer, offset) == buffer[offset + 1] + 256 * buffer[offset + 2]

\* Buffer.readInt32LE(offset): two's complement
readInt32LE(buffer, offset) ==
    buffer[offset + 1] + 256 * buffer[offset + 2]
        + 65536 * buffer[offset + 3]
        + 16777216 * (IF buffer[offset + 4] < 128 THEN buffer[offset + 4]
                      ELSE buffer[offset + 4] - 256)

\* Buffer.slice(start, end): the bytes at offsets start .. end - 1
sliceTo(buffer, start, end) == SubSeq(buffer, start + 1, end)

readStringWithNull(buffer, offset) ==
    [ text   |-> sliceTo(buffer, offset + 2,
                         offset + readUInt16LE(buffer, offset) + 2),
      length |-> readUInt16LE(buffer, offset) + 2 ]

\* readString: the text as its bytes, and the bytes to advance by
readString(buffer, offset) ==
    LET length == readUInt16LE(buffer, offset)
    IN  [ text   |-> sliceTo(buffer, offset + 2, offset + length + 1),
          length |-> length + 2 ]

\* readColor: three bytes; the fourth byte of a color is padding
readColor(buffer, offset) ==
    [ red   |-> readUInt8(buffer, offset),
      green |-> readUInt8(buffer, offset + 1),
      blue  |-> readUInt8(buffer, offset + 2) ]

\* brightness fields of a mode decoded below protocol 3: not assigned
Undefined == -1

\* the body of the loop of readModes for one mode: the mode and the offset
\* after it, or the RangeError of the flag lookup
\* (version: the protocolVersion argument)
readMode(buffer, start, version) ==
    LET name      == readString(buffer, start)
        o1        == start + name.length
        modeValue == readInt32LE(buffer, o1)
        o2        == o1 + 4
        modeFlags == readUInt32LE(buffer, o2)
        speedMin  == readUInt32LE(buffer, o2 + 4)
        speedMax  == readUInt32LE(buffer, o2 + 8)
        brightnessMin == IF version >= 3
                         THEN readUInt32LE(buffer, o2 + 12) ELSE Undefined
        brightnessMax == IF version >= 3
                         THEN readUInt32LE(buffer, o2 + 16) ELSE Undefined
        o3        == IF version >= 3 THEN o2 + 8 ELSE o2
        colorMin  == readUInt32LE(buffer, o3 + 12)
        colorMax  == readUInt32LE(buffer, o3 + 16)
        speed     == readUInt32LE(buffer, o3 + 20)
        brightness == IF version >= 3
                      THEN readUInt32LE(buffer, o3 + 24) ELSE Undefined
        o4        == IF version >= 3 THEN o3 + 4 ELSE o3
        direction == readUInt32LE(buffer, o4 + 24)
        colorMode == readUInt32LE(buffer, o4 + 28)
        o5        == o4 + 32
        wireColorLength == readUInt16LE(buffer, o5)
        o6        == o5 + 2
        looked    == readFlags(modeFlags)
        check     == looked.check
        noSpeed   == ~Truthy(check, 0)
        noBright  == version >= 3 /\ ~Truthy(check, 4)
        noDir     == ~Truthy(check, 1) /\ ~Truthy(check, 2) /\ ~Truthy(check, 3)
        noColor   == \/ (~Truthy(check, 5) /\ ~Truthy(check, 6) /\ ~Truthy(check, 7))
                     \/ wireColorLength = 0
        colorLength == IF noColor THEN 0 ELSE wireColorLength
    IN  IF looked.threw
        THEN [threw |-> TRUE]
        ELSE [ threw  |-> FALSE,
               offset |-> o6 + 4 * colorLength,
               mode   |->
                 [ name          |-> name.text,
                   value         |-> modeValue,
                   flags         |-> modeFlags,
                   speedMin      |-> IF noSpeed THEN 0 ELSE speedMin,
                   speedMax      |-> IF noSpeed THEN 0 ELSE speedMax,
                   brightnessMin |-> IF noBright THEN 0 ELSE brightnessMin,
                   brightnessMax |-> IF noBright THEN 0 ELSE brightnessMax,
                   colorMin      |-> IF noColor THEN 0 ELSE colorMin,
                   colorMax      |-> IF noColor THEN 0 ELSE colorMax,
                   speed         |-> IF noSpeed THEN 0 ELSE speed,
                   brightness    |-> IF noBright THEN 0 ELSE brightness,
                   direction     |-> IF noDir THEN 0 ELSE direction,
                   colorMode     |-> colorMode,
                   colors        |-> [ c \in 1..colorLength |->
                                         readColor(buffer, o6 + 4 * (c - 1)) ],
                   flagList      |-> looked.flagList ] ]

\* Mode records as a server writes them (the layout readModes reads)
writeUInt16LE(n) == << n % 256, (n \div 256) % 256 >>

\* a string on the wire: u16 length counting the final null, the bytes, null
WireString(text) == writeUInt16LE(Len(text) + 1) \o text \o <<0>>

WireColor(c) == << c.red, c.green, c.blue, 0 >>

RECURSIVE WireColors(_)
WireColors(cs) ==
    IF cs = <<>> THEN <<>> ELSE WireColor(Head(cs)) \o WireColors(Tail(cs))

WireMode(w, version) ==
    WireString(w.name) \o writeUInt32LE(w.value) \o writeUInt32LE(w.flags)
      \o writeUInt32LE(w.speedMin) \o writeUInt32LE(w.speedMax)
      \o (IF version >= 3
          THEN writeUInt32LE(w.brightnessMin) \o writeUInt32LE(w.brightnessMax)
          ELSE <<>>)
      \o writeUInt32LE(w.colorMin) \o writeUInt32LE(w.colorMax)
      \o writeUInt32LE(w.speed)
      \o (IF version >= 3 THEN writeUInt32LE(w.brightness) ELSE <<>>)
      \o writeUInt32LE(w.direction) \o writeUInt32LE(w.colorMode)
      \o writeUInt16LE(Len(w.colors)) \o WireColors(w.colors)

\* the colors of the records tried
MaxColors == 2

SomeColors == << [red |-> 255, green |-> 0, blue |-> 16],
                 [red |-> 1, green |-> 2, blue |-> 3],
                 [red |-> 0, green |-> 128, blue |-> 255] >>

\* the record tried: every field with a value of its own, a negative value
\* field, the given flags and the given number of colors
WireRecord(modeFlags, colorLength) ==
    [ name          |-> <<82, 97, 105, 110>>,
      value         |-> -2,
      flags         |-> modeFlags,
      speedMin      |-> 11,
      speedMax      |-> 12,
      brightnessMin |-> 13,
      brightnessMax |-> 70000,
      colorMin      |-> 15,
      colorMax      |-> 16,
      speed         |-> 17,
      brightness    |-> 18,
      direction     |-> 19,
      colorMode     |-> 20,
      colors        |-> SubSeq(SomeColors, 1, colorLength) ]

InitMode ==
    /\ IdleClient
    /\ input \in [ modeFlags   : 0..(2^MaxFlagBits - 1),
                   version     : 0..MaxVersion,
                   colorLength : 0..MaxColors ]
    /\ output = <<>>

DecodeMode ==
    /\ Pending
    /\ output' = <<readMode(WireMode(WireRecord(input.modeFlags,
                                                input.colorLength),
                                     input.version),
                            0, input.version)>>
    /\ UNCHANGED input
    /\ ClientUnchanged

SpecMode == InitMode /\ [][DecodeMode]_vars

\* the record on the wire, and whether some of the given bits are set in it
Wire == WireRecord(input.modeFlags, input.colorLength)

AnyBit(bits) == \E i \in bits : Bit(input.modeFlags, i) = 1

\* C16: in every decoded mode, the speed fields are the wire's when bit 0 is
\* set and 0 otherwise; from version 3 the brightness fields are the wire's
\* when bit 4 is set and 0 otherwise; direction is the wire's when one of
\* bits 1..3 is set and 0 otherwise; with none of bits 5..7 set or a wire
\* colorLength of 0, colorMin and colorMax are 0 and no color is decoded,
\* otherwise they are the wire's and colorLength colors are decoded.
C16_FieldsGatedByFlags ==
    (Applied /\ ~Result.threw) =>
        LET m == Result.mode
        IN  /\ IF AnyBit({0})
               THEN /\ m.speedMin = Wire.speedMin
                    /\ m.speedMax = Wire.speedMax
                    /\ m.speed = Wire.speed
               ELSE m.speedMin = 0 /\ m.speedMax = 0 /\ m.speed = 0
            /\ input.version >= 3 =>
                  IF AnyBit({4})
                  THEN /\ m.brightnessMin = Wire.brightnessMin
                       /\ m.brightnessMax = Wire.brightnessMax
                       /\ m.brightness = Wire.brightness
                  ELSE /\ m.brightnessMin = 0
                       /\ m.brightnessMax = 0
                       /\ m.brightness = 0
            /\ m.direction = (IF AnyBit({1, 2, 3}) THEN Wire.direction ELSE 0)
            /\ IF ~AnyBit({5, 6, 7}) \/ Len(Wire.colors) = 0
               THEN m.colorMin = 0 /\ m.colorMax = 0 /\ m.colors = <<>>
               ELSE /\ m.colorMin = Wire.colorMin
                    /\ m.colorMax = Wire.colorMax
                    /\ m.colors = Wire.colors

\* the spec's example and more: only the speed bit is set, the wire carries
\* colors, and the mode has its speeds, direction 0 and no colors
C16_Witness ==
    /\ Applied
    /\ input.modeFlags = 1
    /\ input.version >= 3
    /\ input.colorLength = MaxColors
    /\ ~Result.threw
    /\ Result.mode.speedMin = 11
    /\ Result.mode.direction = 0
    /\ Result.mode.brightness = 0
    /\ Result.mode.colors = <<>>

----------------------------------------------------------------------------
(* sendMode: the payload of updateMode / saveMode (client.ts lines 445-483) *)

\* pack_string, for a string of ASCII characters given as its bytes:
\* bufferpack "<H{n}s" of [n + 1, string], then a null byte
pack_string(string) == writeUInt16LE(Len(string) + 1) \o string \o <<0>>

\* pack_color_list: "<H" of the count, then "<BBBx" for each color
RECURSIVE packColors(_)
packColors(arr) ==
    IF arr = <<>> THEN <<>>
    ELSE << Head(arr).red, Head(arr).green, Head(arr).blue, 0 >>
            \o packColors(Tail(arr))

pack_color_list(arr) == writeUInt16LE(Len(arr)) \o packColors(arr)

\* bufferpack.pack("<nI", values)
RECURSIVE packI(_)
packI(values) ==
    IF values = <<>> THEN <<>>
    ELSE writeUInt32LE(Head(values)) \o packI(Tail(values))

packAlways12(modeData, version) ==
    packI(<< modeData.value, modeData.flags, modeData.speedMin,
             modeData.speedMax, modeData.brightnessMin, modeData.brightnessMax,
             modeData.colorMin, modeData.colorMax, modeData.speed,
             modeData.brightness, modeData.direction, modeData.colorMode >>)

\* lines 445-473: the numeric block
pack(modeData, version) ==
    IF version >= 3
    THEN packI(<< modeData.value, modeData.flags, modeData.speedMin,
                  modeData.speedMax, modeData.brightnessMin,
                  modeData.brightnessMax, modeData.colorMin, modeData.colorMax,
                  modeData.speed, modeData.brightness, modeData.direction,
                  modeData.colorMode >>)
    ELSE packI(<< modeData.value, modeData.flags, modeData.speedMin,
                  modeData.speedMax, modeData.colorMin, modeData.colorMax,
                  modeData.speed, modeData.direction, modeData.colorMode >>)

\* lines 475-482: the payload sendMode hands to sendMessage
sendModeData(modeData, version) ==
    LET data == writeUInt32LE(modeData.id) \o pack_string(modeData.name)
                  \o pack(modeData, version)
                  \o pack_color_list(modeData.colors)
    IN  writeUInt32LE(Len(data)) \o data

\* the modes tried: mode 0 of a device, as readModes decodes it from the
\* records above, its value field not negative
DeviceMode(modeFlags, colorLength, version) ==
    readMode(WireMode([WireRecord(modeFlags, colorLength) EXCEPT !.value = 7],
                      version),
             0, version)

InitRoundTrip == InitMode

\* a decoded mode is encoded by sendMode, and the encoding, past its length
\* and mode id, is decoded again
EncodeDecode ==
    /\ Pending
    /\ LET dm == DeviceMode(input.modeFlags, input.colorLength, input.version)
       IN  IF dm.threw
           THEN output' = <<[threw |-> TRUE]>>
           ELSE LET data == sendModeData([id |-> 0] @@ dm.mode, input.version)
                IN  output' = << [ threw   |-> FALSE,
                                   mode    |-> dm.mode,
                                   data    |-> data,
                                   decoded |-> readMode(slice(data, 8), 0,
                                                        input.version) ] >>
    /\ UNCHANGED input
    /\ ClientUnchanged

SpecRoundTrip == InitRoundTrip /\ [][EncodeDecode]_vars

----------------------------------------------------------------------------
(* readString and pack_string *)

\* the strings tried: up to MaxLen ASCII characters (one byte each, which
\* TextDecoder gives back as the same character), and one longer than 255
MaxLen == 3

Chars == {65, 98, 126}

LongText == [ i \in 1..300 |-> 97 ]

Texts == UNION { [1..n -> Chars] : n \in 0..MaxLen } \cup {LongText}

\* the buffers tried: pad bytes before the string, the length field counting
\* the text and one final byte (null as pack_string writes it, or another),
\* and a byte after the string
MaxPad == 2

InitString ==
    /\ IdleClient
    /\ input \in [ text : Texts, final : {0, 7}, pad : 0..MaxPad ]
    /\ output = <<>>

StringBuffer ==
    [ i \in 1..input.pad |-> 9 ]
        \o writeUInt16LE(Len(input.text) + 1) \o input.text \o <<input.final>>
        \o <<33>>

DecodeString ==
    /\ Pending
    /\ output' = <<readString(StringBuffer, input.pad)>>
    /\ UNCHANGED input
    /\ ClientUnchanged

SpecString == InitString /\ [][DecodeString]_vars

\* C18: a string whose length field is n >= 1 decodes to the n - 1 bytes
\* after the field, without the final byte, and the cursor advances by
\* n + 2; what pack_string writes for a text decodes to that text and is
\* consumed whole.
C18_StringDecode ==
    Applied =>
        LET n == Len(input.text) + 1
        IN  /\ readUInt16LE(StringBuffer, input.pad) = n
            /\ Result.text = input.text
            /\ Len(Result.text) = n - 1
            /\ Result.length = n + 2
            /\ input.final = 0 =>
                  /\ sliceTo(StringBuffer, input.pad, input.pad + Result.length)
                        = pack_string(input.text)
                  /\ Result.length = Len(pack_string(input.text))

\* a text of MaxLen characters written by pack_string, decoded past a pad
C18_Witness ==
    /\ Applied
    /\ input.final = 0
    /\ input.pad > 0
    /\ Len(input.text) = MaxLen
    /\ Result.text = input.text

----------------------------------------------------------------------------
(* readZones (device.ts lines 248-330) *)

\* 0xFFFFFFFF as readUInt32LE holds it
xFFFFFFFF == -1

readLedRaw(buffer, offset) == << readUInt32LE(buffer, offset) >>

\* led != 0xFFFFFFFF ? led : undefined, an entry of matrix.keys: <<led>>,
\* or <<>> for undefined
readLed(buffer, offset) ==
    LET led == readUInt32LE(buffer, offset)
    IN  IF led # xFFFFFFFF THEN <<led>> ELSE <<>>

\* the two loops that fill matrix.keys, reading one u32 after the other
keys(buffer, offset, height, width) ==
    [ index \in 1..height |->
        [ i \in 1..width |->
            readLed(buffer, offset + 4 * ((index - 1) * width + (i - 1))) ] ]

\* the loop over the segments: the segments and the offset after them
RECURSIVE readSegments(_, _, _)
readSegments(buffer, offset, segmentCount) ==
    IF segmentCount = 0 THEN [ segments |-> <<>>, offset |-> offset ]
    ELSE LET name == readString(buffer, offset)
             o1   == offset + name.length
             rest == readSegments(buffer, o1 + 12, segmentCount - 1)
         IN  [ segments |->
                   << [ name   |-> name.text,
                        type   |-> readInt32LE(buffer, o1),
                        start  |-> readUInt32LE(buffer, o1 + 4),
                        length |-> readUInt32LE(buffer, o1 + 8) ] >>
                       \o rest.segments,
               offset |-> rest.offset ]

\* the body of the loop of readZones for one zone: the zone and the offset
\* after it; matrix and segments are <<>> when undefined
\* (version: the protocolVersion argument)
readZone(buffer, start, zoneIndex, version) ==
    LET zoneName   == readString(buffer, start)
        o1         == start + zoneName.length
        zoneType   == readInt32LE(buffer, o1)
        o2         == o1 + 4
        ledsMin    == readUInt32LE(buffer, o2)
        ledsMax    == readUInt32LE(buffer, o2 + 4)
        ledsCount  == readUInt32LE(buffer, o2 + 8)
        o3         == o2 + 12
        matrixSize == readUInt16LE(buffer, o3)
        o4         == o3 + 2
        height     == readUInt32LE(buffer, o4)
        width      == readUInt32LE(buffer, o4 + 4)
        matrix     == IF matrixSize # 0
                      THEN << [ size   |-> matrixSize \div 4 - 2,
                                height |-> height,
                                width  |-> width,
                                keys   |-> keys(buffer, o4 + 8, height,
                                                width) ] >>
                      ELSE <<>>
        o5         == IF matrixSize # 0 THEN o4 + 8 + 4 * height * width
                      ELSE o4
        segs       == IF version >= 4
                      THEN readSegments(buffer, o5 + 2,
                                        readUInt16LE(buffer, o5))
                      ELSE [ segments |-> <<>>, offset |-> o5 ]
    IN  [ zone   |-> [ name      |-> zoneName.text,
                       id        |-> zoneIndex,
                       type      |-> zoneType,
                       ledsMin   |-> ledsMin,
                       ledsMax   |-> ledsMax,
                       ledsCount |-> ledsCount,
                       resizable |-> ~(ledsMin = ledsMax),
                       matrix    |-> matrix,
                       segments  |-> IF version >= 4 THEN <<segs.segments>>
                                     ELSE <<>> ],
          offset |-> segs.offset ]

\* readZones: the zones and the offset after the last of them
RECURSIVE readZonesFrom(_, _, _, _, _)
readZonesFrom(buffer, zoneIndex, zoneCount, offset, version) ==
    IF ~(zoneIndex < zoneCount) THEN [ zones |-> <<>>, offset |-> offset ]
    ELSE LET z    == readZone(buffer, offset, zoneIndex, version)
             rest == readZonesFrom(buffer, zoneIndex + 1, zoneCount,
                                   z.offset, version)
         IN  [ zones |-> <<z.zone>> \o rest.zones, offset |-> rest.offset ]

readZones(buffer, zoneCount, offset, version) ==
    readZonesFrom(buffer, 0, zoneCount, offset, version)

\* the zones tried: a matrix of at most MaxCells entries, each one of Raws
MaxCells == 4

Raws == {0, 7, xFFFFFFFF, xFFFFFFFF - 1}

Shapes == { s \in (0..MaxCells) \X (0..MaxCells) : s[1] * s[2] <= MaxCells }

\* the matrixSize a server writes for a matrix, and one that is not that
\* of the matrix that follows
SizeOf(height, width) == 8 + 4 * height * width

OtherSize == 4

ZoneVersions == {0, 4}

ZoneInputs ==
    [ matrixSize : {0}, height : {0}, width : {0}, cells : {<<>>},
      version : ZoneVersions ]
    \cup UNION { [ matrixSize : {SizeOf(s[1], s[2]), OtherSize},
                   height : {s[1]}, width : {s[2]},
                   cells : [1..(s[1] * s[2]) -> Raws],
                   version : ZoneVersions ] : s \in Shapes }

RECURSIVE WireCells(_)
WireCells(cells) ==
    IF cells = <<>> THEN <<>>
    ELSE writeUInt32LE(Head(cells)) \o WireCells(Tail(cells))

\* a zone on the wire, as far as its matrix
WireZoneHead(text, ledsCount) ==
    WireString(text) \o writeUInt32LE(1) \o writeUInt32LE(1)
        \o writeUInt32LE(ledsCount) \o writeUInt32LE(ledsCount)

WireSegment(text, start, length) ==
    WireString(text) \o writeUInt32LE(0) \o writeUInt32LE(start)
        \o writeUInt32LE(length)

\* the segments of a zone from version 4 on: one segment
WireSegments(version) ==
    IF version >= 4
    THEN writeUInt16LE(1) \o WireSegment(<<83>>, 0, 2)
    ELSE <<>>

\* two zones: the zone tried, then a zone without a matrix
ZoneBuffer ==
    WireZoneHead(<<75, 101, 121, 115>>, 5)
        \o writeUInt16LE(input.matrixSize)
        \o (IF input.matrixSize # 0
            THEN writeUInt32LE(input.height) \o writeUInt32LE(input.width)
                     \o WireCells(input.cells)
            ELSE <<>>)
        \o WireSegments(input.version)
        \o WireZoneHead(<<66>>, 3) \o writeUInt16LE(0)
        \o WireSegments(input.version)

InitZones ==
    /\ IdleClient
    /\ input \in ZoneInputs
    /\ output = <<>>

DecodeZones ==
    /\ Pending
    /\ output' = <<readZones(ZoneBuffer, 2, 0, input.version)>>
    /\ UNCHANGED input
    /\ ClientUnchanged

SpecZones == InitZones /\ [][DecodeZones]_vars

\* the entry a raw u32 stands for
EntryOf(raw) == IF raw = xFFFFFFFF THEN <<>> ELSE <<raw>>

\* the zone without a matrix that follows the zone tried
SecondZone ==
    [ name |-> <<66>>, id |-> 1, type |-> 1, ledsMin |-> 1, ledsMax |-> 3,
      ledsCount |-> 3, resizable |-> TRUE, matrix |-> <<>>,
      segments |-> IF input.version >= 4
                   THEN << << [ name |-> <<83>>, type |-> 0, start |-> 0,
                                length |-> 2 ] >> >>
                   ELSE <<>> ]

\* C19: a zone with a non-zero matrixSize decodes to a matrix of height rows
\* of width entries, the entry in row r and column c being that of the
\* (r - 1) * width + c th u32 after the width: no LED exactly when that u32
\* is 0xFFFFFFFF, the u32 itself otherwise; a zone with matrixSize 0 has no
\* matrix and the bytes after matrixSize are read as what follows the matrix.
C19_MatrixDecode ==
    Applied =>
        LET zone == Result.zones[1]
        IN  /\ input.matrixSize = 0 <=> zone.matrix = <<>>
            /\ input.matrixSize # 0 =>
                 LET matrix == zone.matrix[1]
                 IN  /\ matrix.height = input.height
                     /\ matrix.width = input.width
                     /\ Len(matrix.keys) = input.height
                     /\ \A r \in 1..input.height :
                          /\ Len(matrix.keys[r]) = input.width
                          /\ \A c \in 1..input.width :
                               LET raw == input.cells[(r - 1) * input.width + c]
                               IN  /\ matrix.keys[r][c] = EntryOf(raw)
                                   /\ matrix.keys[r][c] = <<>>
                                          <=> raw = xFFFFFFFF
                                   /\ raw = 7 => matrix.keys[r][c] = <<7>>
            /\ Len(Result.zones) = 2
            /\ Result.zones[2] = SecondZone
            /\ Result.offset = Len(ZoneBuffer)

\* a matrix of two rows of two entries holding 0xFFFFFFFF, 7 and 0xFFFFFFFE,
\* decoded
C19_Witness ==
    /\ Applied
    /\ input.height = 2
    /\ input.width = 2
    /\ input.cells = <<xFFFFFFFF, 7, xFFFFFFFF - 1, 0>>
    /\ Result.zones[1].matrix[1].keys = << << <<>>, <<7>> >>,
                                          << <<xFFFFFFFF - 1>>, <<0>> >> >>

----------------------------------------------------------------------------
(* Delivery: every byte the server sent reaches the handler *)

\* bytes on their way arrive and "readable" is emitted, unless the handler
\* has thrown: the steps of Readable as far as wire is concerned, and enabled
\* when Readable is
Arrives ==
    /\ transport \in {"open", "ending"}
    /\ ~crashed
    /\ \E k \in 1..Len(wire) : wire' = SubSeq(wire, k + 1, Len(wire))

\* the framer with every byte delivered in the end
SpecDelivery == InitFramer /\ [][NextFramer]_vars /\ WF_wire(Arrives)

\* the identities readMessage gives out
RequestIds == 2..(MaxRequests + 1)

\* the position in the queue of the request with identity id, 0 if none
PositionOf(id) ==
    IF \E x \in 1..Len(resolver) : resolver[x].id = id
    THEN CHOOSE x \in 1..Len(resolver) : resolver[x].id = id
    ELSE 0

\* request id is pending and the oldest of its key, packet i is the first
\* packet of that key the framer has not read to its end, and the framer has
\* not read the first byte of it
AwaitsReply(id, i) ==
    /\ i <= Len(packets)
    /\ PositionOf(id) > 0
    /\ LET x == PositionOf(id)
       IN  /\ SameKey(resolver[x], packets[i])
           /\ \A w \in 1..(x - 1) : ~SameKey(resolver[w], resolver[x])
           /\ \A j \in 1..(i - 1) :
                SameKey(resolver[x], packets[j]) => EndOffset(j) <= Consumed
    /\ Consumed <= EndOffset(i - 1)

\* request id has been fulfilled with packet i, that is with its payload
FulfilledBy(id, i) ==
    \E f \in 1..Len(fulfilled) :
        /\ i <= Len(packets)
        /\ fulfilled[f].id = id
        /\ handed[fulfilled[f].pkt].at = EndOffset(i)
        /\ fulfilled[f].payload = packets[i].payload

\* C20 as claimed: with valid magic everywhere and every byte delivered, a
\* request registered before the framer reads the first byte of the reply
\* for its key, and the oldest of that key, is eventually fulfilled with
\* that reply's payload.
C20_ReplyReachesRequest ==
    \A id \in RequestIds : \A i \in 1..MaxPackets :
        (ValidPlan /\ ~crashed /\ AwaitsReply(id, i)) ~> FulfilledBy(id, i)

\* the same, unless the handler throws
C20_UnlessThrown ==
    \A id \in RequestIds : \A i \in 1..MaxPackets :
        (ValidPlan /\ ~crashed /\ AwaitsReply(id, i))
            ~> (FulfilledBy(id, i) \/ crashed)

----------------------------------------------------------------------------
(* The cursor after a mode *)

\* C21 as claimed: the cursor after a decoded mode is at the end of the
\* mode's bytes on the wire, its name, its numeric block for the version and
\* all 4 * colorLength color bytes, whatever the flag bits are.
C21_AdvanceIgnoresFlags ==
    (Applied /\ ~Result.threw) =>
        Result.offset = Len(WireMode(Wire, input.version))

\* the same for the modes that have a color bit set or no color on the wire
C21_AdvanceWithColorBits ==
    (Applied /\ ~Result.threw /\ (AnyBit(5..7) \/ input.colorLength = 0)) =>
        Result.offset = Len(WireMode(Wire, input.version))

----------------------------------------------------------------------------
(* updateMode with a ModeInput (client.ts lines 401-483) *)

\* a field of the ModeInput: <<>> when it is missing, <<v>> when it is given
\* if (mode.speed): the field is given and its number is not 0
truthy(field) == field # <<>> /\ field[1] # 0

\* if (mode.colors): the field is given; an array is truthy even when empty
truthyArray(field) == field # <<>>

\* lines 437-443: the fields of the input put over those of the device's mode
patchMode(modeData, mode) ==
    [ modeData EXCEPT
        !.speed      = IF truthy(mode.speed) THEN mode.speed[1] ELSE @,
        !.brightness = IF truthy(mode.brightness) THEN mode.brightness[1]
                       ELSE @,
        !.direction  = IF truthy(mode.direction) THEN mode.direction[1] ELSE @,
        !.colorMode  = IF truthy(mode.colorMode) THEN mode.colorMode[1] ELSE @,
        !.colors     = IF truthyArray(mode.colors) THEN mode.colors[1] ELSE @ ]

\* the inputs tried: each number missing, 0 or 5; the colors missing, an
\* empty list or one color; the device's mode 0 has every flag bit for these
\* fields set, and MaxColors colors
GivenNumbers == {<<>>, <<0>>, <<5>>}

GivenColors == {<<>>, << <<>> >>, << <<[red |-> 9, green |-> 8, blue |-> 7]>> >>}

AllFieldBits == 255

InitUpdate ==
    /\ IdleClient
    /\ input \in [ speed : GivenNumbers, brightness : GivenNumbers,
                   direction : GivenNumbers, colorMode : GivenNumbers,
                   colors : GivenColors, version : 0..MaxVersion ]
    /\ output = <<>>

\* the mode selected by { id: 0 }, as getControllerData decoded it
SelectedMode ==
    [id |-> 0] @@ DeviceMode(AllFieldBits, MaxColors, input.version).mode

\* updateMode(deviceId, input): the payload handed to sendMessage
updateMode ==
    /\ Pending
    /\ output' = << [ device |-> SelectedMode,
                      data   |-> sendModeData(patchMode(SelectedMode, input),
                                              input.version) ] >>
    /\ UNCHANGED input
    /\ ClientUnchanged

SpecUpdate == InitUpdate /\ [][updateMode]_vars

\* the mode the payload carries, read as the server reads it
Carried == readMode(slice(Result.data, 8), 0, input.version).mode

\* what a field is to carry: the given value, or the device's
Wanted(field, current) == IF field # <<>> THEN field[1] ELSE current

\* C22 as claimed: the payload carries for each of speed, brightness (from
\* version 3, where the payload has it), direction, colorMode and colors the
\* given value when the input has the field, 0 and the empty list included,
\* and the device's current value when it has not.
C22_GivenFieldsCarried ==
    Applied =>
        /\ Carried.speed = Wanted(input.speed, Result.device.speed)
        /\ input.version >= 3 =>
             Carried.brightness
                 = Wanted(input.brightness, Result.device.brightness)
        /\ Carried.direction = Wanted(input.direction, Result.device.direction)
        /\ Carried.colorMode = Wanted(input.colorMode, Result.device.colorMode)
        /\ Carried.colors = Wanted(input.colors, Result.device.colors)

\* the same for the inputs that give no number as 0
C22_NonZeroCarried ==
    (\A f \in {input.speed, input.brightness, input.direction,
               input.colorMode} : f # <<0>>)
        => C22_GivenFieldsCarried

----------------------------------------------------------------------------
(* The header kept between two "readable" events *)

\* the buffers passed to resolve() are the bytes of the stream that end
\* where the handler had read to: a header and the payload behind it
AssembledFromStream ==
    \A h \in 1..Len(handed) :
        /\ Len(handed[h].buffer) <= handed[h].at
        /\ handed[h].buffer
              = SubSeq(Stream, handed[h].at - Len(handed[h].buffer) + 1,
                       handed[h].at)
        /\ Len(handed[h].buffer)
              = HEADER_SIZE + readUInt32LE(handed[h].buffer, 12)

\* C23 as claimed: however requests are registered between the "readable"
\* events, the handler never throws, and every packet it passes on is made
\* of the header that precedes its payload in the stream and that payload.
C23_HeaderOfItsPayload == ~crashed /\ AssembledFromStream

----------------------------------------------------------------------------
(* The race for the connection *)

\* connect() has not marked the client connected, has written nothing and
\* has not emitted "connect"
NotSetUp == ~isConnected /\ sent = <<>> /\ emitted.connect = 0

\* the race was won by the socket's error: connect() threw before any
\* negotiation
RaceLost == pc = "failed" /\ outcome = "none"

\* C24 as claimed: as long as the socket has not connected, and after a race
\* won by the socket's error, the client is not marked connected, nothing
\* has been written to the socket and "connect" has not been emitted.
C24_SetUpOnlyAfterSuccess ==
    (transport \in {"none", "connecting"} \/ RaceLost) => NotSetUp

\* the part of it about a race won by the socket's error
C24_NotAfterError == RaceLost => NotSetUp

----------------------------------------------------------------------------
(* connect() called again on the same client *)

\* the sockets a client opens one after the other
MaxSockets == 2

\* lines 47-59 once more, after connect() has returned and the socket has
\* closed: this.socket is a new Socket. From here on sockbuf, wire, packets
\* and sent are those of the new socket; resolver and currentPacketLength
\* are fields of the client and stay as they are. Every socket that was
\* opened and closed has emitted one "disconnect".
reconnect ==
    /\ pc \in {"done", "failed"}
    /\ transport = "closed"
    /\ emitted.disconnect < MaxSockets
    /\ ~crashed
    /\ pc' = "racing"
    /\ transport' = "connecting"
    /\ sockbuf' = <<>>
    /\ wire' = <<>>
    /\ packets' = <<>>
    /\ sent' = <<>>
    /\ serverReplied' = FALSE
    /\ UNCHANGED <<settings, isConnected, protocolVersion, resolver,
                   currentPacketLength, nextId, negId, outcome, Histories,
                   lastCall, input, output>>

\* the version the server of the new connection answers with
ReconnectVersion == 4

\* a connection set up as in InitFramer, its packets in flight; then the
\* socket closes, fails or is ended, and the client connects again
NextReconnect ==
    \/ \E k \in 1..Len(wire) : Readable(k)
    \/ getControllerCount
    \/ getProtocolVersion
    \/ SocketClose
    \/ SocketError
    \/ disconnect
    \/ reconnect
    \/ ConnectSucceeds
    \/ ~serverReplied /\ ServerReply(ReconnectVersion)
    \/ NegotiationTimeout

\* the first connection has one packet in flight
InitReconnect == InitFramer /\ Len(packets) = 1

SpecReconnect == InitReconnect /\ [][NextReconnect]_vars

\* C25 as claimed: as long as no byte has arrived on the client's socket the
\* framer awaits a header: the remembered payload length is 0, on the first
\* connection and on one opened after an earlier one ended in the middle of
\* a packet.
C25_StartsAwaitingHeader == Received = 0 => currentPacketLength = 0

\* the requests written to the current socket, and whether a request was
\* registered before that socket was opened: identities are given out in
\* order
WrittenHere ==
    Cardinality({ i \in 1..Len(sent) :
                    decodeHeader(sent[i]).commandId # setClientNameCommand })

Stale(id) == id <= nextId - WrittenHere

\* C26 as claimed: no packet fulfils a request that was registered before
\* the socket it arrives on was opened.
C26_NoStaleFulfilment ==
    [][\A f \in 1..Len(NewlyFulfilled) : ~Stale(NewlyFulfilled[f].id)]_vars

====
